---- MODULE Spec2Model ----
(***************************************************************************)
(* A model of DeBERTa/apps/train.py, the DeBERTa finetuning runner.        *)
(*                                                                         *)
(*   Spec       the entry-point block and main(args): usage check, data    *)
(*              loading, model creation, device initialisation, the four   *)
(*              runners in their dispatch order, and the top-level         *)
(*              exception handler.                                         *)
(*   SpecMerge  merge_distributed called by every rank of a job on data    *)
(*              lists of every shape within the bounds.                    *)
(*   SpecEval   one process of any rank in run_eval (with calc_metrics) or *)
(*              in run_predict, over any list of evaluation items.         *)
(*   SpecTrain  train_model: the step count, data_fn and the trainer.      *)
(*   SpecJob    every rank of a job in run_eval or in run_predict over the *)
(*              same list of data sets, meeting in the all_gather calls.   *)
(***************************************************************************)
EXTENDS Integers, Sequences, FiniteSets, TLC

VARIABLES
  pc,           \* position of the process in the entry-point block / main
  args,         \* the argparse Namespace: attribute name -> value
  trace,        \* the externally visible calls made so far, in order
  exc,          \* the exception that escaped main ("none" when there is none)
  device,       \* what initialize_distributed returned
  loaded,       \* the data sets loaded by main
  model,        \* how create_model built the model
  main_ret,     \* the value main returned
  exit_status,  \* how the process ended
  md_dist,      \* merge_distributed: torch.distributed.is_initialized()
  md_world,     \* merge_distributed: the world size
  md_data,      \* merge_distributed: data_list of every rank
  md_max_len,   \* merge_distributed: max_len, <<>> for None and <<n>> for n
  md_out,       \* merge_distributed: what each rank's call returned
  ev_mode,      \* the runner a process is in: "run_eval" or "run_predict"
  ev_rank,      \* its args.rank
  ev_world,     \* its args.world_size
  ev_pc,        \* its position in the runner
  ev_count,     \* the evaluation items it has taken from eval_data
  ev_item,      \* the evaluation item it is working on
  ev_k,         \* the index of the prediction tensor calc_metrics gets next
  ev_results,   \* eval_results: name -> <<eval_metric, predicts, labels>>
  ev_files,     \* the files it has written to args.output_dir
  ev_callbacks, \* the names it has called eval_item.predict_fn for
  tr_pc,        \* train_model: position
  tr_input,     \* train_model: len(train_data), epochs, train_batch_size
  tr_steps,     \* train_model: num_train_steps
  tr_supplied,  \* train_model: what data_fn returned, call by call
  tr_started,   \* train_model: the calls of trainer.train()
  job_mode,     \* the runner every rank of the job is in
  job_dist,     \* torch.distributed.is_initialized() in the job
  job_data,     \* eval_data: the batches each rank gets of each data set
  job_parts,    \* the tensors of the model's logits, 0 for a single tensor
  job_pc,       \* rank -> its position in the runner
  job_idx,      \* rank -> the data sets it has taken from eval_data
  job_todo,     \* rank -> the all_gather calls it still makes for its data set
  job_calls,    \* rank -> the all_gather calls it has entered, in order
  job_files     \* the files written to args.output_dir, with the writer

mainVars == <<pc, args, trace, exc, device, loaded, model, main_ret, exit_status>>

mergeVars == <<md_dist, md_world, md_data, md_max_len, md_out>>

evalVars == <<ev_mode, ev_rank, ev_world, ev_pc, ev_count, ev_item, ev_k,
             ev_results, ev_files, ev_callbacks>>

trainVars == <<tr_pc, tr_input, tr_steps, tr_supplied, tr_started>>

jobVars == <<job_mode, job_dist, job_data, job_parts, job_pc, job_idx, job_todo, job_calls,
            job_files>>

vars == <<mainVars, mergeVars, evalVars, trainVars, jobVars>>

\* a step of main leaves the rest alone
MainFrame == UNCHANGED <<mergeVars, evalVars, trainVars, jobVars>>

\* so does a call of merge_distributed
MergeFrame == UNCHANGED <<mainVars, evalVars, trainVars, jobVars>>

\* a step of run_eval, calc_metrics or run_predict
EvalFrame == UNCHANGED <<mainVars, mergeVars, trainVars, jobVars>>

\* a step of train_model
TrainFrame == UNCHANGED <<mainVars, mergeVars, evalVars, jobVars>>

\* a step of one rank of a job
JobFrame == UNCHANGED <<mainVars, mergeVars, evalVars, trainVars>>

\* no call of merge_distributed is under way
MergeIdle ==
  /\ md_dist = FALSE
  /\ md_world = 1
  /\ md_data = <<>>
  /\ md_max_len = <<>>
  /\ md_out = <<>>

\* no evaluation item: what ev_item holds between two items
NoItem ==
  [name |-> "", empty |-> FALSE, predict_fn |-> FALSE, metrics_fn |-> FALSE,
   ignore_metric |-> FALSE, parts |-> 0]

\* no process is in run_eval or run_predict
EvalIdle ==
  /\ ev_mode = "none"
  /\ ev_rank = 0
  /\ ev_world = 1
  /\ ev_pc = "idle"
  /\ ev_count = 0
  /\ ev_item = NoItem
  /\ ev_k = 0
  /\ ev_results = <<>>
  /\ ev_files = {}
  /\ ev_callbacks = {}

\* no call of train_model is under way
TrainIdle ==
  /\ tr_pc = "idle"
  /\ tr_input = <<0, 0, 0>>
  /\ tr_steps = 0
  /\ tr_supplied = <<>>
  /\ tr_started = 0

\* no job is running
JobIdle ==
  /\ job_mode = "none"
  /\ job_dist = FALSE
  /\ job_data = <<>>
  /\ job_parts = 0
  /\ job_pc = <<>>
  /\ job_idx = <<>>
  /\ job_todo = <<>>
  /\ job_calls = <<>>
  /\ job_files = {}

----------------------------------------------------------------------------
(* Bounds *)

\* the largest world size initialize_distributed reports
MaxWorld == 2

\* the most batches in a data_list handed to merge_distributed
MaxBatches == 2

\* the most rows in one rank's shard of a batch
MaxRows == 2

\* the most tensors in a multi-tensor result
MaxParts == 2

\* the largest max_len handed to merge_distributed
MaxLen == 5

\* the most evaluation items in eval_data
MaxItems == 2

\* the most training examples
MaxExamples == 4

\* the largest num_train_epochs, in units of 1/EpochUnit epoch
MaxEpochUnits == 5

\* the largest train_batch_size
MaxBatchSize == 3

\* the most calls of data_fn the trainer makes
MaxDataFnCalls == 2

----------------------------------------------------------------------------
(* The Arguments object *)

\* the mode flags build_argument_parser declares (store_true, default False)
ModeFlags == {"do_train", "do_eval", "do_predict", "do_onnx"}

\* the attributes parse_args returns: the parser declares neither rank nor
\* world_size
ParserFields == ModeFlags

\* getattr(args, name, default)
GetAttr(a, name, default) == IF name \in DOMAIN a THEN a[name] ELSE default

\* setattr on the Namespace: adds the attribute or replaces its value
SetAttr(a, name, value) ==
  [n \in DOMAIN a \cup {name} |-> IF n = name THEN value ELSE a[n]]

\* the usage check as it stood before do_onnx was added to it
NoModeRequested_Mutant(a) ==
  ~a["do_train"] /\ ~a["do_eval"] /\ ~a["do_predict"]

\* line 277: not do_train and not do_eval and not do_predict and not do_onnx
NoModeRequested(a) ==
  ~a["do_train"] /\ ~a["do_eval"] /\ ~a["do_predict"] /\ ~a["do_onnx"]

----------------------------------------------------------------------------
(* Exceptions *)

\* the exception classes that can escape main: the usage error of line 278,
\* any other subclass of Exception raised by a call main makes, and the
\* BaseException-only classes
ExcKinds == {"ValueError", "Exception", "KeyboardInterrupt", "SystemExit"}

\* isinstance(ex, Exception), the test of `except Exception as ex`
IsException(k) == k \in {"ValueError", "Exception"}

\* the positions at which main is inside a call that can raise
CallSites == {"makedirs", "load_data", "create_model", "write_config",
              "init_distributed", "in_run_eval", "in_train_model",
              "in_run_predict", "in_run_onnx_training"}

Emit(e) == trace' = Append(trace, e)

----------------------------------------------------------------------------
(* main(args) *)

\* lines 277-278
CheckUsage ==
  /\ pc = "main"
  /\ IF NoModeRequested(args)
       THEN /\ exc' = "ValueError"
            /\ pc' = "raised"
       ELSE /\ pc' = "makedirs"
            /\ UNCHANGED exc
  /\ UNCHANGED <<args, trace, device, loaded, model, main_ret, exit_status>>
  /\ MainFrame

\* lines 279-287: output directory, seeds, tokenizer, task processor
MakeDirs ==
  /\ pc = "makedirs"
  /\ Emit("makedirs")
  /\ pc' = "load_data"
  /\ UNCHANGED <<args, exc, device, loaded, model, main_ret, exit_status>>
  /\ MainFrame

\* lines 289-296
LoadData ==
  /\ pc = "load_data"
  /\ loaded' = {"eval_data"}
                 \cup (IF args["do_predict"] THEN {"test_data"} ELSE {})
                 \cup (IF args["do_train"] \/ args["do_onnx"]
                         THEN {"train_data"} ELSE {})
  /\ Emit("load_data")
  /\ pc' = "create_model"
  /\ UNCHANGED <<args, exc, device, model, main_ret, exit_status>>
  /\ MainFrame

\* create_model, lines 32-42: only rank < 1 loads the initial weights
CreateModelResult(a) ==
  IF GetAttr(a, "rank", 0) < 1 THEN "from_init_model" ELSE "no_init_model"

\* create_model storing the rank it read back on args
CreateModelArgs_Mutant(a) == SetAttr(a, "rank", GetAttr(a, "rank", 0))

\* create_model reads args and assigns none of its attributes
CreateModelArgs(a) == a

\* lines 297-298
CreateModel ==
  /\ pc = "create_model"
  /\ model' = CreateModelResult(args)
  /\ args' = CreateModelArgs(args)
  /\ Emit("create_model")
  /\ pc' = "write_config"
  /\ UNCHANGED <<exc, device, loaded, main_ret, exit_status>>
  /\ MainFrame

\* the configuration written for do_train alone
WritesModelConfig_Mutant(a) == a["do_train"]

\* line 299
WritesModelConfig(a) == a["do_train"] \/ a["do_onnx"]

\* lines 299-302
WriteConfig ==
  /\ pc = "write_config"
  /\ IF WritesModelConfig(args)
       THEN Emit("write:model_config.json")
       ELSE UNCHANGED trace
  /\ pc' = "init_distributed"
  /\ UNCHANGED <<args, exc, device, loaded, model, main_ret, exit_status>>
  /\ MainFrame

\* initialize_distributed(args), imported from ..training: it reports the
\* rank and the world size of the process on args and returns a device, or
\* something that is not a device
InitializeDistributedArgs(a, rank, world) ==
  SetAttr(SetAttr(a, "rank", rank), "world_size", world)

\* lines 303-306
InitializeDistributed ==
  /\ pc = "init_distributed"
  /\ \E world \in 1..MaxWorld, isdev \in BOOLEAN :
       \E rank \in (IF world = 1 THEN {-1, 0} ELSE 0..(world - 1)) :
         /\ args' = InitializeDistributedArgs(args, rank, world)
         /\ Emit("init_distributed")
         /\ IF isdev
              THEN /\ device' = "device"
                   /\ pc' = "if_do_eval"
                   /\ UNCHANGED main_ret
              ELSE /\ device' = "not_a_device"
                   /\ main_ret' = "0"
                   /\ pc' = "returned"
  /\ UNCHANGED <<exc, loaded, model, exit_status>>
  /\ MainFrame

\* `if args.<flag>: <runner>(...)`: the call when the flag is set, the
\* fall-through to the next `if` otherwise
Dispatch(at, flag, runner, next) ==
  /\ pc = at
  /\ IF args[flag]
       THEN /\ Emit("call:" \o runner)
            /\ pc' = "in_" \o runner
       ELSE /\ pc' = next
            /\ UNCHANGED trace
  /\ UNCHANGED <<args, exc, device, loaded, model, main_ret, exit_status>>
  /\ MainFrame

\* the runner returns to main
Return(runner, next) ==
  /\ pc = "in_" \o runner
  /\ Emit("ret:" \o runner)
  /\ pc' = next
  /\ UNCHANGED <<args, exc, device, loaded, model, main_ret, exit_status>>
  /\ MainFrame

\* lines 307-308
DispatchEval == Dispatch("if_do_eval", "do_eval", "run_eval", "if_do_train")
ReturnEval == Return("run_eval", "if_do_train")

\* train_model dispatched on the flag of the ONNX path
DispatchTrain_Mutant ==
  Dispatch("if_do_train", "do_onnx", "train_model", "if_do_predict")

\* lines 310-311
DispatchTrain ==
  Dispatch("if_do_train", "do_train", "train_model", "if_do_predict")
ReturnTrain == Return("train_model", "if_do_predict")

\* lines 313-314
DispatchPredict ==
  Dispatch("if_do_predict", "do_predict", "run_predict", "if_do_onnx")
ReturnPredict == Return("run_predict", "if_do_onnx")

\* lines 317-318
DispatchOnnx ==
  Dispatch("if_do_onnx", "do_onnx", "run_onnx_training", "end_of_main")
ReturnOnnx == Return("run_onnx_training", "end_of_main")

\* main falls off its end and returns None
MainEnd ==
  /\ pc = "end_of_main"
  /\ main_ret' = "None"
  /\ pc' = "returned"
  /\ UNCHANGED <<args, trace, exc, device, loaded, model, exit_status>>
  /\ MainFrame

\* a call made by main raises: the exception propagates out of main
Raise ==
  /\ pc \in CallSites
  /\ \E k \in ExcKinds \ {"ValueError"} : exc' = k
  /\ pc' = "raised"
  /\ UNCHANGED <<args, trace, device, loaded, model, main_ret, exit_status>>
  /\ MainFrame

----------------------------------------------------------------------------
(* The entry-point block, lines 507-522 *)

\* line 514: `except Exception as ex` takes the exception or lets it go
HandlerEntered(k) == IsException(k)

ExceptClause ==
  /\ pc = "raised"
  /\ IF HandlerEntered(exc)
       THEN /\ pc' = "handler_log"
            /\ UNCHANGED exit_status
       ELSE /\ pc' = "exited"
            /\ exit_status' = "uncaught"
  /\ UNCHANGED <<args, trace, exc, device, loaded, model, main_ret>>
  /\ MainFrame

\* kill_children placed inside the try block, so that a failure of
\* logger.exception skips it
AfterLog_Mutant(ok) == IF ok THEN "handler_atexit" ELSE "handler_exit"

\* where the handler continues after logger.exception: with the exit
\* handlers when it returned, past the bare `except: pass` when it raised
AfterLog(ok) == IF ok THEN "handler_atexit" ELSE "handler_kill"

\* line 516
LogException ==
  /\ pc = "handler_log"
  /\ \E ok \in BOOLEAN :
       /\ Emit(IF ok THEN "log" ELSE "log_failed")
       /\ pc' = AfterLog(ok)
  /\ UNCHANGED <<args, exc, device, loaded, model, main_ret, exit_status>>
  /\ MainFrame

\* lines 517-520
RunExitFuncs ==
  /\ pc = "handler_atexit"
  /\ \E ok \in BOOLEAN :
       Emit(IF ok THEN "exitfuncs" ELSE "exitfuncs_failed")
  /\ pc' = "handler_kill"
  /\ UNCHANGED <<args, exc, device, loaded, model, main_ret, exit_status>>
  /\ MainFrame

\* line 521
KillChildren ==
  /\ pc = "handler_kill"
  /\ Emit("kill_children")
  /\ pc' = "handler_exit"
  /\ UNCHANGED <<args, exc, device, loaded, model, main_ret, exit_status>>
  /\ MainFrame

\* line 522: os._exit(-1)
ForcedExit ==
  /\ pc = "handler_exit"
  /\ Emit("os._exit")
  /\ exit_status' = "-1"
  /\ pc' = "exited"
  /\ UNCHANGED <<args, exc, device, loaded, model, main_ret>>
  /\ MainFrame

\* main returned: the script ends and the interpreter exits normally
ScriptEnd ==
  /\ pc = "returned"
  /\ exit_status' = "0"
  /\ pc' = "exited"
  /\ UNCHANGED <<args, trace, exc, device, loaded, model, main_ret>>
  /\ MainFrame


----------------------------------------------------------------------------
(* merge_distributed, lines 65-100 *)

(* A tensor is the sequence of its rows (torch.cat and slicing act on the  *)
(* first dimension). An element of data_list is one tensor or a sequence   *)
(* of tensors: [seq |-> isinstance(data, Sequence), parts |-> its tensors],*)
(* a single tensor being its own only part. Rank r of the job is index     *)
(* r + 1 here.                                                             *)

Tensor(t) == [seq |-> FALSE, parts |-> <<t>>]

RECURSIVE TorchCat(_)
\* torch.cat(ts): the rows of the tensors of ts, one tensor after the other
TorchCat(ts) ==
  IF ts = <<>> THEN <<>> ELSE Head(ts) \o TorchCat(Tail(ts))

\* t[:n[1]], and t itself when max_len is None
SliceTo(t, n) ==
  IF n = <<>> THEN t
  ELSE IF n[1] >= Len(t) THEN t
  ELSE IF n[1] >= 0 THEN SubSeq(t, 1, n[1])
  ELSE SubSeq(t, 1, Len(t) + n[1])

\* gather(data), lines 67-71: all_gather fills chunk i with the tensor that
\* rank i hands to the same call, here part k of its b-th element
Gather(data, b, k) == [i \in 1..md_world |-> data[i][b].parts[k]]

\* lines 76-81: each part gathered and concatenated, the list appended
GatherParts(data, b) ==
  [seq |-> TRUE,
   parts |-> [k \in 1..Len(data[1][b].parts) |-> TorchCat(Gather(data, b, k))]]

\* only the first chunk kept: merged.append(data_chunks[0])
ExtendChunks_Mutant(merged, chunks) == Append(merged, Tensor(chunks[1]))

\* lines 83-84: merged.extend(data_chunks)
ExtendChunks(merged, chunks) ==
  merged \o [i \in 1..Len(chunks) |-> Tensor(chunks[i])]

RECURSIVE MergeLoop(_, _, _, _)
\* lines 73-86, from the b-th element of rank r's data_list on
MergeLoop(data, r, b, merged) ==
  IF b > Len(data[r]) THEN merged
  ELSE MergeLoop(data, r, b + 1,
         IF md_dist /\ md_world > 1
           THEN IF data[r][b].seq
                  THEN Append(merged, GatherParts(data, b))
                  ELSE ExtendChunks(merged, Gather(data, b, 1))
           ELSE Append(merged, data[r][b]))

\* the columns concatenated and not cut to max_len
ZipCat_Mutant(merged, max_len) ==
  [seq |-> TRUE,
   parts |-> [k \in 1..Len(merged[1].parts) |->
                TorchCat([i \in 1..Len(merged) |-> merged[i].parts[k]])]]

\* lines 94-100: zip(*merged), each column concatenated and cut to max_len
ZipCat(merged, max_len) ==
  [seq |-> TRUE,
   parts |-> [k \in 1..Len(merged[1].parts) |->
                SliceTo(TorchCat([i \in 1..Len(merged) |-> merged[i].parts[k]]),
                        max_len)]]

\* lines 88-92
CatAll(merged, max_len) ==
  Tensor(SliceTo(TorchCat([i \in 1..Len(merged) |-> merged[i].parts[1]]),
                 max_len))

\* merge_distributed(data_list, max_len) as called by rank r, data[i] being
\* the data_list of rank i
MergeDistributed(data, r, max_len) ==
  LET merged == MergeLoop(data, r, 1, <<>>)
  IN  IF ~merged[1].seq
        THEN CatAll(merged, max_len)
        ELSE ZipCat(merged, max_len)

\* rank r's call returns
MergeCall(r) ==
  /\ r \in DOMAIN md_out
  /\ ~md_out[r].done
  /\ md_out' = [md_out EXCEPT ![r] =
                  [done |-> TRUE,
                   val |-> MergeDistributed(md_data, r, md_max_len)]]
  /\ UNCHANGED <<md_dist, md_world, md_data, md_max_len>>
  /\ MergeFrame

\* the row of a tensor: which rank, batch, part and position it came from
Row(r, b, k, i) == <<r, b, k, i>>

\* every rank of a job about to call merge_distributed: a process group or
\* none, the data_list a list of tensors or of sequences of tensors, every
\* batch sharded evenly over the ranks, max_len None or a length
MergeInit ==
  /\ \E w \in 1..MaxWorld, dist \in BOOLEAN, nb \in 1..MaxBatches,
        isSeq \in BOOLEAN, np \in 1..MaxParts :
       \E lens \in [1..nb -> 1..MaxRows] :
         /\ dist \/ w = 1
         /\ isSeq \/ np = 1
         /\ md_world = w
         /\ md_dist = dist
         /\ md_data =
              [r \in 1..w |->
                [b \in 1..nb |->
                  [seq |-> isSeq,
                   parts |-> [k \in 1..np |->
                               [i \in 1..lens[b] |-> Row(r, b, k, i)]]]]]
         /\ md_out = [r \in 1..w |-> [done |-> FALSE, val |-> Tensor(<<>>)]]
  /\ md_max_len \in {<<>>} \cup {<<n>> : n \in 0..MaxLen}

MergeNext == \E r \in 1..MaxWorld : MergeCall(r)

----------------------------------------------------------------------------
(* run_eval, calc_metrics and run_predict as run by one process *)

\* the names of the evaluation items
EvalNames == {"dev", "test"}

\* EvalItem: its name, whether its data is empty, whether it has a
\* predict_fn and a metrics_fn, its ignore_metric flag, and the number of
\* prediction tensors the model gives for it (0: a single tensor)
EvalItems ==
  [name : EvalNames, empty : BOOLEAN, predict_fn : BOOLEAN,
   metrics_fn : BOOLEAN, ignore_metric : BOOLEAN, parts : {0, MaxParts}]

\* the merged predictions handed to calc_metrics: the merged tensor, or the
\* k-th of the merged tensors (lines 174-180)
Predicts(item, k) == <<"predicts", item.name, k>>

\* the merged labels (line 175)
Labels(item) == <<"labels", item.name>>

\* lines 107-113: metric_accuracy, or the mean of the critical metrics of
\* metrics_fn
EvalMetric(item, predicts, labels) ==
  IF item.metrics_fn
    THEN <<"mean_critical_metrics", predicts, labels>>
    ELSE <<"metric_accuracy", predicts, labels>>

\* the name calc_metrics is called with: name, or name@k (lines 178, 180)
CallName(item, k) ==
  IF item.parts = 0 THEN item.name ELSE item.name \o "@" \o ToString(k)

\* d[key] = value on a dict
DictSet(d, key, value) ==
  [n \in DOMAIN d \cup {key} |-> IF n = key THEN value ELSE d[n]]

\* the test as `args.rank>=0`
WritesArtifacts_Mutant(rank) == rank >= 0

\* lines 117 and 212: `if args.rank<=0`
WritesArtifacts(rank) == rank <= 0

\* lines 117-132: the files calc_metrics writes
CalcMetricsFiles(rank, item, name) ==
  IF WritesArtifacts(rank)
    THEN {"eval_results_" \o name} \cup
         (IF item.predict_fn THEN {}
          ELSE {"predict_results_" \o name, "predict_labels_" \o name})
    ELSE {}

\* lines 126-127: the call of predict_fn
CalcMetricsCallbacks(rank, item, name) ==
  IF WritesArtifacts(rank) /\ item.predict_fn THEN {name} ELSE {}

\* the assignment of line 135 indented into the `if args.rank<=0` block
CalcMetricsResults_Mutant(results, rank, item, name, entry) ==
  IF rank <= 0 /\ ~item.ignore_metric
    THEN DictSet(results, name, entry) ELSE results

\* lines 134-135
CalcMetricsResults(results, rank, item, name, entry) ==
  IF ~item.ignore_metric THEN DictSet(results, name, entry) ELSE results

\* run_eval, lines 150-175: the next evaluation item, its batches, the
\* division by nb_eval_steps (ZeroDivisionError when the item gave this
\* process no batch) and the two calls of merge_distributed
EvalItem ==
  /\ ev_mode = "run_eval"
  /\ ev_pc = "loop"
  /\ ev_count < MaxItems
  /\ \E item \in EvalItems :
       /\ ev_item' = item
       /\ ev_pc' = IF item.empty THEN "raised" ELSE "calc_metrics"
  /\ ev_count' = ev_count + 1
  /\ ev_k' = 0
  /\ UNCHANGED <<ev_mode, ev_rank, ev_world, ev_results, ev_files,
                 ev_callbacks>>
  /\ EvalFrame

\* one call of calc_metrics (lines 102-135) from lines 176-180: the only
\* one for a single prediction tensor, the k-th for a sequence of them
CalcMetrics ==
  /\ ev_pc = "calc_metrics"
  /\ LET name == CallName(ev_item, ev_k)
         predicts == Predicts(ev_item, ev_k)
         labels == Labels(ev_item)
         entry == <<EvalMetric(ev_item, predicts, labels), predicts, labels>>
     IN  /\ ev_files' = ev_files \cup CalcMetricsFiles(ev_rank, ev_item, name)
         /\ ev_callbacks' =
              ev_callbacks \cup CalcMetricsCallbacks(ev_rank, ev_item, name)
         /\ ev_results' =
              CalcMetricsResults(ev_results, ev_rank, ev_item, name, entry)
  /\ ev_k' = ev_k + 1
  /\ ev_pc' = IF ev_k + 1 < ev_item.parts THEN "calc_metrics" ELSE "loop"
  /\ UNCHANGED <<ev_mode, ev_rank, ev_world, ev_count, ev_item>>
  /\ EvalFrame

\* line 182: eval_data is exhausted and run_eval returns eval_results
EvalReturn ==
  /\ ev_mode = "run_eval"
  /\ ev_pc = "loop"
  /\ ev_pc' = "returned"
  /\ UNCHANGED <<ev_mode, ev_rank, ev_world, ev_count, ev_item, ev_k,
                 ev_results, ev_files, ev_callbacks>>
  /\ EvalFrame

\* lines 212-219: what run_predict writes for an item
PredictFiles(rank, item) ==
  IF WritesArtifacts(rank) THEN {"test_logits_" \o item.name} ELSE {}

PredictCallbacks(rank, item) ==
  IF WritesArtifacts(rank) /\ item.predict_fn THEN {item.name} ELSE {}

\* run_predict, lines 188-219: the next evaluation item, its batches (one
\* all_gather each when world_size > 1), predicts[:len] (TypeError when the
\* item gave this process no batch and predicts is still None), the dump
PredictItem ==
  /\ ev_mode = "run_predict"
  /\ ev_pc = "loop"
  /\ ev_count < MaxItems
  /\ \E item \in EvalItems :
       IF item.empty
         THEN /\ ev_pc' = "raised"
              /\ UNCHANGED <<ev_files, ev_callbacks>>
         ELSE /\ ev_pc' = "loop"
              /\ ev_files' = ev_files \cup PredictFiles(ev_rank, item)
              /\ ev_callbacks' =
                   ev_callbacks \cup PredictCallbacks(ev_rank, item)
  /\ ev_count' = ev_count + 1
  /\ UNCHANGED <<ev_mode, ev_rank, ev_world, ev_item, ev_k, ev_results>>
  /\ EvalFrame

\* eval_data is exhausted and run_predict returns
PredictReturn ==
  /\ ev_mode = "run_predict"
  /\ ev_pc = "loop"
  /\ ev_pc' = "returned"
  /\ UNCHANGED <<ev_mode, ev_rank, ev_world, ev_count, ev_item, ev_k,
                 ev_results, ev_files, ev_callbacks>>
  /\ EvalFrame

\* a process of any rank of any world enters run_eval or run_predict
EvalInit ==
  /\ ev_mode \in {"run_eval", "run_predict"}
  /\ \E world \in 1..MaxWorld :
       \E rank \in (IF world = 1 THEN {-1, 0} ELSE 0..(world - 1)) :
         /\ ev_world = world
         /\ ev_rank = rank
  /\ ev_pc = "loop"
  /\ ev_count = 0
  /\ ev_item = NoItem
  /\ ev_k = 0
  /\ ev_results = <<>>
  /\ ev_files = {}
  /\ ev_callbacks = {}

EvalNext ==
  \/ EvalItem
  \/ CalcMetrics
  \/ EvalReturn
  \/ PredictItem
  \/ PredictReturn

----------------------------------------------------------------------------
(* train_model, lines 44-63 *)

(* num_train_epochs is a float (lines 391-394). It is modelled as a        *)
(* multiple of 1/EpochUnit and the arithmetic as exact: for halves of an   *)
(* epoch and counts of this size binary floating point is exact too, so    *)
(* that int() of the float quotient is the integer part of the quotient.   *)
(* The rounding of floating point on other values is not modelled.         *)
EpochUnit == 2

\* the step count rounded up instead of cut
NumTrainSteps_Mutant(n, e, batch) ==
  (n * e + EpochUnit * batch - 1) \div (EpochUnit * batch)

\* line 46: int(len(train_data) * num_train_epochs / train_batch_size), for
\* n examples, e/EpochUnit epochs and a positive batch size
NumTrainSteps(n, e, batch) == (n * e) \div (EpochUnit * batch)

\* lines 45-62: the step count (ZeroDivisionError for a batch size of 0),
\* the three callbacks and the DistributedTrainer
TrainModelSetup ==
  /\ tr_pc = "train_model"
  /\ IF tr_input[3] = 0
       THEN /\ tr_pc' = "raised"
            /\ UNCHANGED tr_steps
       ELSE /\ tr_pc' = "trainer_built"
            /\ tr_steps' = NumTrainSteps(tr_input[1], tr_input[2], tr_input[3])
  /\ UNCHANGED <<tr_input, tr_supplied, tr_started>>
  /\ TrainFrame

\* line 63: trainer.train()
TrainerTrain ==
  /\ tr_pc = "trainer_built"
  /\ tr_started' = tr_started + 1
  /\ tr_pc' = "training"
  /\ UNCHANGED <<tr_input, tr_steps, tr_supplied>>
  /\ TrainFrame

\* lines 50-51: the trainer calls data_fn, which returns the train_data and
\* the num_train_steps of the enclosing call
DataFn ==
  /\ tr_pc = "training"
  /\ Len(tr_supplied) < MaxDataFnCalls
  /\ tr_supplied' = Append(tr_supplied, <<tr_input[1], tr_steps>>)
  /\ UNCHANGED <<tr_pc, tr_input, tr_steps, tr_started>>
  /\ TrainFrame

\* trainer.train() returns, and train_model with it
TrainReturn ==
  /\ tr_pc = "training"
  /\ tr_pc' = "returned"
  /\ UNCHANGED <<tr_input, tr_steps, tr_supplied, tr_started>>
  /\ TrainFrame

\* train_model is called with train_data of any size, any number of epochs
\* and any batch size
TrainInit ==
  /\ tr_pc = "train_model"
  /\ tr_input \in (0..MaxExamples) \X (0..MaxEpochUnits) \X (0..MaxBatchSize)
  /\ tr_steps = 0
  /\ tr_supplied = <<>>
  /\ tr_started = 0

TrainNext ==
  \/ TrainModelSetup
  \/ TrainerTrain
  \/ DataFn
  \/ TrainReturn

----------------------------------------------------------------------------
(* A job: every rank in run_eval (lines 144-182) or run_predict (184-219) *)

\* the ranks of the job
JobRanks == DOMAIN job_pc

\* args.world_size, which is torch.distributed.get_world_size() in a job
JobWorld == Cardinality(JobRanks)

\* line 74: `if torch.distributed.is_initialized() and
\* torch.distributed.get_world_size()>1`
MergeGathers(dist, world) == dist /\ world > 1

\* line 200: `if args.world_size>1`
PredictGathers(world) == world > 1

\* lines 73-84: the all_gather calls merge_distributed makes for a data_list
\* of nb batches, one per batch of tensors and one per tensor of a batch that
\* is a sequence of them
MergeCalls(i, what, nb, parts) ==
  IF parts = 0
  THEN [b \in 1..nb |-> <<i, what, b, 0>>]
  ELSE [j \in 1..(nb * parts) |->
          <<i, what, ((j - 1) \div parts) + 1, ((j - 1) % parts) + 1>>]

\* merge_distributed(labels) asked for on the rank that computes metrics only
EvalCalls_Mutant(rank, i, nb) ==
  IF MergeGathers(job_dist, JobWorld)
  THEN MergeCalls(i, "predicts", nb, job_parts)
       \o (IF rank <= 0 THEN MergeCalls(i, "labels", nb, 0) ELSE <<>>)
  ELSE <<>>

\* lines 174-175 with 73-86: the all_gather calls of merge_distributed(predicts)
\* and then of merge_distributed(labels), one per batch each, for the i-th
\* data set; no line of them reads the rank
EvalCalls(rank, i, nb) ==
  IF MergeGathers(job_dist, JobWorld)
  THEN MergeCalls(i, "predicts", nb, job_parts)
       \o MergeCalls(i, "labels", nb, 0)
  ELSE <<>>

\* lines 196-204: one all_gather of the logits in every turn of the batch loop
PredictCalls(rank, i, nb) ==
  IF PredictGathers(JobWorld)
  THEN [b \in 1..nb |-> <<i, "logits", b, 0>>]
  ELSE <<>>

\* the all_gather calls a rank makes for the i-th data set, of nb batches
RankCalls(rank, i, nb) ==
  IF job_mode = "run_eval" THEN EvalCalls(rank, i, nb)
  ELSE PredictCalls(rank, i, nb)

\* lines 68-69 and 202-203: all_gather followed by torch.cuda.synchronize()
\* returns on a rank once every rank of the job has entered the same call,
\* calls being paired in the order each rank makes them
Joined(r) ==
  \A q \in JobRanks : Len(job_calls[q]) >= Len(job_calls[r])

\* lines 150-173 and 188-196: a rank takes the next data set and runs its
\* batches; without a batch line 173 divides by zero and line 211 slices None
JobTakeItem(r) ==
  /\ r \in JobRanks
  /\ job_pc[r] = "loop"
  /\ job_idx[r] < Len(job_data)
  /\ LET i == job_idx[r] + 1
         nb == job_data[i]
     IN  /\ job_idx' = [job_idx EXCEPT ![r] = i]
         /\ IF nb = 0
            THEN /\ job_pc' = [job_pc EXCEPT ![r] = "raised"]
                 /\ UNCHANGED job_todo
            ELSE /\ job_pc' = [job_pc EXCEPT ![r] = "gather"]
                 /\ job_todo' = [job_todo EXCEPT ![r] = RankCalls(r, i, nb)]
  /\ UNCHANGED <<job_mode, job_dist, job_data, job_parts, job_calls, job_files>>
  /\ JobFrame

\* lines 67-71 and 201-203: the rank enters its next all_gather, its last one
\* having returned
JobAllGather(r) ==
  /\ r \in JobRanks
  /\ job_pc[r] = "gather"
  /\ job_todo[r] # <<>>
  /\ Joined(r)
  /\ job_calls' = [job_calls EXCEPT ![r] = Append(@, Head(job_todo[r]))]
  /\ job_todo' = [job_todo EXCEPT ![r] = Tail(@)]
  /\ UNCHANGED <<job_mode, job_dist, job_data, job_parts, job_pc, job_idx,
                 job_files>>
  /\ JobFrame

\* lines 176-180 with 117-132, and lines 211-219: the last all_gather of the
\* data set having returned, rank 0 writes the data set's file
JobReport(r) ==
  /\ r \in JobRanks
  /\ job_pc[r] = "gather"
  /\ job_todo[r] = <<>>
  /\ Joined(r)
  /\ job_files' = job_files \cup
       (IF WritesArtifacts(r) THEN {<<r, job_idx[r]>>} ELSE {})
  /\ job_pc' = [job_pc EXCEPT ![r] = "loop"]
  /\ UNCHANGED <<job_mode, job_dist, job_data, job_parts, job_idx, job_todo,
                 job_calls>>
  /\ JobFrame

\* lines 182 and 219: eval_data is exhausted
JobReturn(r) ==
  /\ r \in JobRanks
  /\ job_pc[r] = "loop"
  /\ job_idx[r] = Len(job_data)
  /\ job_pc' = [job_pc EXCEPT ![r] = "returned"]
  /\ UNCHANGED <<job_mode, job_dist, job_data, job_parts, job_idx, job_todo,
                 job_calls, job_files>>
  /\ JobFrame

\* every rank of a job enters the same runner with the same eval_data, whose
\* batch sampler gives every rank the same number of batches of a data set;
\* run_predict takes the logits for one tensor (lines 201 and 205)
JobInit ==
  /\ job_mode \in {"run_eval", "run_predict"}
  /\ job_parts \in (IF job_mode = "run_eval" THEN {0, MaxParts} ELSE {0})
  /\ job_data \in UNION {[1..n -> 0..MaxBatches] : n \in 0..MaxItems}
  /\ \E world \in 1..MaxWorld :
       /\ job_dist \in {d \in BOOLEAN : d \/ world = 1}
       /\ job_pc = [r \in 0..(world - 1) |-> "loop"]
       /\ job_idx = [r \in 0..(world - 1) |-> 0]
       /\ job_todo = [r \in 0..(world - 1) |-> <<>>]
       /\ job_calls = [r \in 0..(world - 1) |-> <<>>]
  /\ job_files = {}

\* what one rank does next
JobRankStep(r) ==
  \/ JobTakeItem(r)
  \/ JobAllGather(r)
  \/ JobReport(r)
  \/ JobReturn(r)

JobNext ==
  \/ \E r \in 0..(MaxWorld - 1) : JobTakeItem(r)
  \/ \E r \in 0..(MaxWorld - 1) : JobAllGather(r)
  \/ \E r \in 0..(MaxWorld - 1) : JobReport(r)
  \/ \E r \in 0..(MaxWorld - 1) : JobReturn(r)

----------------------------------------------------------------------------

\* the state after parser.parse_args(): every combination of mode flags
MainInit ==
  /\ pc = "main"
  /\ args \in [ParserFields -> BOOLEAN]
  /\ trace = <<>>
  /\ exc = "none"
  /\ device = "unset"
  /\ loaded = {}
  /\ model = "unbuilt"
  /\ main_ret = "running"
  /\ exit_status = "running"

Init == MainInit /\ MergeIdle /\ EvalIdle /\ TrainIdle /\ JobIdle

Next ==
  \/ CheckUsage
  \/ MakeDirs
  \/ LoadData
  \/ CreateModel
  \/ WriteConfig
  \/ InitializeDistributed
  \/ DispatchEval
  \/ ReturnEval
  \/ DispatchTrain
  \/ ReturnTrain
  \/ DispatchPredict
  \/ ReturnPredict
  \/ DispatchOnnx
  \/ ReturnOnnx
  \/ MainEnd
  \/ Raise
  \/ ExceptClause
  \/ LogException
  \/ RunExitFuncs
  \/ KillChildren
  \/ ForcedExit
  \/ ScriptEnd

Spec == Init /\ [][Next]_vars

\* pc of a process that is not in the entry-point block
MainIdle ==
  /\ pc = "idle"
  /\ args = [f \in ParserFields |-> FALSE]
  /\ trace = <<>>
  /\ exc = "none"
  /\ device = "unset"
  /\ loaded = {}
  /\ model = "unbuilt"
  /\ main_ret = "running"
  /\ exit_status = "running"

InitMerge == MainIdle /\ MergeInit /\ EvalIdle /\ TrainIdle /\ JobIdle

SpecMerge == InitMerge /\ [][MergeNext]_vars

InitEval == MainIdle /\ MergeIdle /\ EvalInit /\ TrainIdle /\ JobIdle

SpecEval == InitEval /\ [][EvalNext]_vars

InitTrain == MainIdle /\ MergeIdle /\ EvalIdle /\ TrainInit /\ JobIdle

SpecTrain == InitTrain /\ [][TrainNext]_vars

InitJob == MainIdle /\ MergeIdle /\ EvalIdle /\ TrainIdle /\ JobInit

\* every rank is a process of its own that runs on while it can
SpecJob ==
  /\ InitJob
  /\ [][JobNext]_vars
  /\ \A r \in 0..(MaxWorld - 1) : WF_vars(JobRankStep(r))

----------------------------------------------------------------------------
(* Reading the trace *)

Has(e) == \E i \in DOMAIN trace : trace[i] = e

Count(e) == Cardinality({i \in DOMAIN trace : trace[i] = e})

\* every e1 in the trace comes before every e2
Precedes(e1, e2) ==
  \A i, j \in DOMAIN trace : trace[i] = e1 /\ trace[j] = e2 => i < j

HandlerEvents == {"log", "log_failed", "exitfuncs", "exitfuncs_failed",
                  "kill_children", "os._exit"}

RunnerNames == <<"run_eval", "train_model", "run_predict", "run_onnx_training">>

RunnerFlags == <<"do_eval", "do_train", "do_predict", "do_onnx">>

RunnerEvents ==
  {"call:" \o RunnerNames[i] : i \in 1..4} \cup
  {"ret:" \o RunnerNames[i] : i \in 1..4}

IsHandlerEvent(e) == e \in HandlerEvents
IsRunnerEvent(e) == e \in RunnerEvents

\* what the top-level handler did, and what the runners did, in order
HandlerTrace == SelectSeq(trace, IsHandlerEvent)
RunnerTrace == SelectSeq(trace, IsRunnerEvent)

IsPrefix(s, t) == Len(s) <= Len(t) /\ SubSeq(t, 1, Len(s)) = s

AnyModeFlag ==
  args["do_train"] \/ args["do_eval"] \/ args["do_predict"] \/ args["do_onnx"]

----------------------------------------------------------------------------
(* C1 *)

\* C1: main raises the usage ValueError exactly when none of do_train,
\* do_eval, do_predict, do_onnx is set: with no flag set main has raised it
\* as soon as it has taken its first step, with some flag set it never
\* does; and when it is raised the output directory has not been created,
\* no data set has been loaded, no model has been built and no runner has
\* been invoked.
C1_UsageError ==
  /\ pc # "main" => (exc = "ValueError" <=> ~AnyModeFlag)
  /\ pc = "main" => exc = "none"
  /\ exc = "ValueError" =>
       /\ \A i \in DOMAIN trace : trace[i] \in HandlerEvents
       /\ loaded = {}
       /\ model = "unbuilt"
       /\ device = "unset"
       /\ RunnerTrace = <<>>

\* the usage error was raised and went through the top-level handler
C1_Witness ==
  /\ exc = "ValueError"
  /\ pc = "exited"
  /\ ~AnyModeFlag

----------------------------------------------------------------------------
(* C2 *)

\* C2 as claimed: whatever exception escapes main, the process has, when
\* it ends, logged, attempted the exit handlers, killed its children and
\* force-exited with status -1, in that order.
C2_Original ==
  (pc = "exited" /\ exc # "none") =>
     /\ exit_status = "-1"
     /\ Len(HandlerTrace) = 4
     /\ HandlerTrace[1] \in {"log", "log_failed"}
     /\ HandlerTrace[2] \in {"exitfuncs", "exitfuncs_failed"}
     /\ HandlerTrace[3] = "kill_children"
     /\ HandlerTrace[4] = "os._exit"

\* the handler runs that the entry-point block allows
HandlerRuns ==
  { <<"log", "exitfuncs", "kill_children", "os._exit">>,
    <<"log", "exitfuncs_failed", "kill_children", "os._exit">>,
    <<"log_failed", "kill_children", "os._exit">> }

\* C2 (amended): an exception escaping main that is an instance of Exception
\* is logged, then - unless logging itself raised - the exit handlers are
\* run, then the children are killed, then the process force-exits with
\* status -1, in that order; kill_children and the forced exit happen also
\* when logging or the exit handlers fail. An exception that is no instance
\* of Exception (KeyboardInterrupt, SystemExit) passes the handler by:
\* nothing is logged, no child is killed, there is no forced exit. A run in
\* which main returns never reaches kill_children or the forced exit.
C2_Handler ==
  /\ \E run \in HandlerRuns : IsPrefix(HandlerTrace, run)
  /\ HandlerTrace # <<>> => exc \in {"ValueError", "Exception"}
  /\ (pc = "exited" /\ exc \in {"ValueError", "Exception"}) =>
       /\ HandlerTrace \in HandlerRuns
       /\ exit_status = "-1"
  /\ (pc = "exited" /\ exc \in {"KeyboardInterrupt", "SystemExit"}) =>
       /\ HandlerTrace = <<>>
       /\ exit_status = "uncaught"
  /\ exit_status = "-1" <=> Has("os._exit")
  /\ main_ret # "running" =>
       /\ exc = "none"
       /\ HandlerTrace = <<>>
       /\ exit_status \in {"running", "0"}

\* logging failed inside the handler, and the process still killed its
\* children and force-exited
C2_Witness ==
  /\ pc = "exited"
  /\ exc = "Exception"
  /\ HandlerTrace = <<"log_failed", "kill_children", "os._exit">>
  /\ exit_status = "-1"

----------------------------------------------------------------------------
(* C6 *)

----------------------------------------------------------------------------
(* C7 *)

RECURSIVE ExpectedRunnerTrace(_)
\* the calls and returns of the runners from the i-th on, for the flags set
ExpectedRunnerTrace(i) ==
  IF i > 4 THEN <<>>
  ELSE (IF args[RunnerFlags[i]]
          THEN <<"call:" \o RunnerNames[i], "ret:" \o RunnerNames[i]>>
          ELSE <<>>) \o ExpectedRunnerTrace(i + 1)

----------------------------------------------------------------------------
(* C10 *)

\* C10: when initialize_distributed returns no compute device, main returns
\* 0 and no runner is ever invoked, whatever the flags; by then eval_data is
\* loaded (test_data iff do_predict, train_data iff do_train or do_onnx),
\* and model_config.json has been written iff do_train or do_onnx is set.
\* The file is never written unless do_train or do_onnx, at most once, and
\* always before initialize_distributed is called.
C10_NoDevice ==
  /\ device = "not_a_device" =>
       /\ main_ret = "0"
       /\ pc \in {"returned", "exited"}
       /\ RunnerTrace = <<>>
       /\ exc = "none"
  /\ Has("init_distributed") =>
       /\ "eval_data" \in loaded
       /\ "test_data" \in loaded <=> args["do_predict"]
       /\ "train_data" \in loaded <=> (args["do_train"] \/ args["do_onnx"])
       /\ Precedes("load_data", "init_distributed")
       /\ Has("write:model_config.json") <=>
            (args["do_train"] \/ args["do_onnx"])
  /\ Has("write:model_config.json") => (args["do_train"] \/ args["do_onnx"])
  /\ Count("write:model_config.json") <= 1
  /\ Precedes("write:model_config.json", "init_distributed")
  /\ main_ret = "0" <=> device = "not_a_device"

\* main returned 0 for want of a device, although training and prediction
\* were requested, with the model configuration already on disk
C10_Witness ==
  /\ device = "not_a_device"
  /\ main_ret = "0"
  /\ pc = "exited"
  /\ args["do_train"] /\ args["do_predict"]
  /\ Has("write:model_config.json")
  /\ loaded = {"eval_data", "test_data", "train_data"}

----------------------------------------------------------------------------
(* C3, C4: merge_distributed *)

\* the ranks whose rows reach rank r's call: all of them under a process
\* group of more than one rank, r alone otherwise
Participants(r) == IF md_dist /\ md_world > 1 THEN 1..md_world ELSE {r}

\* the rows of part k of every batch of those ranks
RowsOf(r, k) ==
  UNION { UNION { { md_data[q][b].parts[k][i] :
                      i \in 1..Len(md_data[q][b].parts[k]) } :
                  b \in 1..Len(md_data[q]) } :
          q \in Participants(r) }

\* batch-major, rank-minor: x comes before y when its batch is earlier, or in
\* the same batch its rank is lower, or in the same shard its position is
BatchMajor(x, y) ==
  \/ x[2] < y[2]
  \/ x[2] = y[2] /\ x[1] < y[1]
  \/ x[2] = y[2] /\ x[1] = y[1] /\ x[4] < y[4]

\* t holds the first n rows of S in batch-major, rank-minor order
OrderedPrefix(t, S, n) ==
  /\ Len(t) = n
  /\ \A i \in 1..Len(t) : t[i] \in S
  /\ \A i, j \in 1..Len(t) : i < j => BatchMajor(t[i], t[j])
  /\ \A x \in S : (\A i \in 1..Len(t) : t[i] # x) =>
                    \A i \in 1..Len(t) : BatchMajor(t[i], x)

\* min(max_len, rows gathered), and all of them when max_len is None
ExpectedLen(S) ==
  IF md_max_len = <<>> THEN Cardinality(S)
  ELSE IF md_max_len[1] < Cardinality(S) THEN md_max_len[1]
  ELSE Cardinality(S)

\* C3: for a non-empty list of single tensors, merge_distributed returns
\* one tensor: the rows of all ranks' shards in batch-major, rank-minor order
\* (the local batches in order when the world size is 1 or there is no
\* process group), cut to its first max_len rows: min(max_len, rows gathered)
\* of them, all of them when max_len is None. Every rank gets the same.
C3_Merge ==
  /\ \A r \in DOMAIN md_out :
       (md_out[r].done /\ ~md_data[r][1].seq) =>
          /\ ~md_out[r].val.seq
          /\ Len(md_out[r].val.parts) = 1
          /\ OrderedPrefix(md_out[r].val.parts[1], RowsOf(r, 1),
                           ExpectedLen(RowsOf(r, 1)))
  /\ \A r, q \in DOMAIN md_out :
       (md_out[r].done /\ md_out[q].done /\ ~md_data[r][1].seq) =>
          md_out[r].val = md_out[q].val

\* two ranks merged two batches of single tensors and both got the first
\* three of the four gathered rows: rank 0 then rank 1 of batch 0, then
\* rank 0 of batch 1
C3_Witness ==
  /\ md_dist /\ md_world = 2
  /\ md_max_len = <<3>>
  /\ md_out[1].done /\ md_out[2].done
  /\ md_out[2].val = Tensor(<<Row(1, 1, 1, 1), Row(2, 1, 1, 1),
                              Row(1, 2, 1, 1)>>)
  /\ md_out[1].val = md_out[2].val

\* the data lists of all ranks with every element replaced by its k-th
\* component alone
Component(data, k) ==
  [q \in DOMAIN data |->
    [b \in DOMAIN data[q] |-> Tensor(data[q][b].parts[k])]]

\* C4: when every element of data_list is a sequence of K tensors,
\* merge_distributed returns a list of K tensors whose k-th is what it
\* returns for the list of the k-th components alone - the same
\* batch-major, rank-minor order and the same cut to max_len - with a
\* process group of more than one rank and without.
C4_MultiTensor ==
  \A r \in DOMAIN md_out :
    (md_out[r].done /\ md_data[r][1].seq) =>
       /\ md_out[r].val.seq
       /\ Len(md_out[r].val.parts) = Len(md_data[r][1].parts)
       /\ \A k \in 1..Len(md_data[r][1].parts) :
            /\ Tensor(md_out[r].val.parts[k]) =
                 MergeDistributed(Component(md_data, k), r, md_max_len)
            /\ OrderedPrefix(md_out[r].val.parts[k], RowsOf(r, k),
                             ExpectedLen(RowsOf(r, k)))

\* two ranks merged two batches of pairs of tensors, and each of the two
\* merged tensors was cut from four rows to three
C4_Witness ==
  /\ md_dist /\ md_world = 2
  /\ md_max_len = <<3>>
  /\ md_out[1].done
  /\ md_out[1].val.seq
  /\ md_out[1].val.parts =
       << <<Row(1, 1, 1, 1), Row(2, 1, 1, 1), Row(1, 2, 1, 1)>>,
          <<Row(1, 1, 2, 1), Row(2, 1, 2, 1), Row(1, 2, 2, 1)>> >>

----------------------------------------------------------------------------
(* C5 *)

\* C5: a call of calc_metrics with an item whose ignore_metric is false
\* leaves eval_results[name] = (eval_metric, predicts, labels), with
\* ignore_metric true it leaves eval_results as it was; in both cases no
\* entry under another name is changed, added or removed, and the rank of
\* the process plays no part.
C5_FoldMetric ==
  [][ ev_pc = "calc_metrics" =>
        LET name == CallName(ev_item, ev_k)
            predicts == Predicts(ev_item, ev_k)
            labels == Labels(ev_item)
            eval_metric == EvalMetric(ev_item, predicts, labels)
        IN  IF ev_item.ignore_metric
              THEN ev_results' = ev_results
              ELSE /\ DOMAIN ev_results' = DOMAIN ev_results \cup {name}
                   /\ ev_results'[name] = <<eval_metric, predicts, labels>>
                   /\ \A n \in DOMAIN ev_results \ {name} :
                        ev_results'[n] = ev_results[n]
    ]_vars

\* a process of rank 1 has folded the metric of "dev" into eval_results and
\* has left out that of "test", whose ignore_metric is set
C5_Witness ==
  /\ ev_rank = 1
  /\ ev_mode = "run_eval"
  /\ ev_pc = "loop"
  /\ ev_count = 2
  /\ ev_item.name = "test" /\ ev_item.ignore_metric /\ ev_item.parts = 0
  /\ DOMAIN ev_results = {"dev"}
  /\ ev_results["dev"] =
       << <<"metric_accuracy", <<"predicts", "dev", 0>>, <<"labels", "dev">> >>,
          <<"predicts", "dev", 0>>, <<"labels", "dev">> >>

----------------------------------------------------------------------------
(* C8 *)

\* C8: a process of rank > 0 writes no file and calls no predict_fn, in
\* calc_metrics (eval_results, predict_results, predict_labels) and in
\* run_predict (test_logits), whatever the evaluation items are: every
\* artifact is produced by a process of rank <= 0.
C8_RankZeroWrites ==
  /\ ev_rank > 0 => (ev_files = {} /\ ev_callbacks = {})
  /\ (ev_files # {} \/ ev_callbacks # {}) => ev_rank <= 0

\* a process of rank 1 has been through calc_metrics for two evaluation
\* items, one of them with a predict_fn, and has written nothing
C8_Witness ==
  /\ ev_rank = 1
  /\ ev_mode = "run_eval"
  /\ ev_pc = "returned"
  /\ ev_count = 2
  /\ DOMAIN ev_results = {"dev", "test"}
  /\ ev_item.predict_fn
  /\ ev_files = {}
  /\ ev_callbacks = {}

----------------------------------------------------------------------------
(* C9 *)

\* s is the integer part of n * (e / EpochUnit) / batch, all non-negative
IsFloorOfQuotient(s, n, e, batch) ==
  /\ s >= 0
  /\ s * EpochUnit * batch <= n * e
  /\ n * e < (s + 1) * EpochUnit * batch

\* C9: once train_model has built the trainer, num_train_steps is
\* floor(len(train_data) * num_train_epochs / train_batch_size) - 0 when the
\* product is smaller than the batch size; every call of data_fn returns
\* that train_data and that step count; trainer.train() is called at most
\* once, and exactly once when train_model returns.
C9_TrainSteps ==
  /\ tr_pc \in {"trainer_built", "training", "returned"} =>
       /\ IsFloorOfQuotient(tr_steps, tr_input[1], tr_input[2], tr_input[3])
       /\ tr_input[1] * tr_input[2] < EpochUnit * tr_input[3] => tr_steps = 0
  /\ \A i \in DOMAIN tr_supplied :
       /\ tr_supplied[i][1] = tr_input[1]
       /\ tr_supplied[i][2] = tr_steps
       /\ IsFloorOfQuotient(tr_supplied[i][2],
                            tr_input[1], tr_input[2], tr_input[3])
  /\ tr_started <= 1
  /\ tr_started = 1 <=> tr_pc \in {"training", "returned"}
  /\ tr_supplied # <<>> => tr_started = 1

\* 3 examples, 1.5 epochs, batches of 2: 2.25 gives 2 steps, and data_fn
\* returned them twice
C9_Witness ==
  /\ tr_pc = "returned"
  /\ tr_input = <<3, 3, 2>>
  /\ tr_steps = 2
  /\ tr_supplied = << <<3, 2>>, <<3, 2>> >>
  /\ tr_started = 1

----------------------------------------------------------------------------
(* C11 *)

\* the tensors of batch b in the order a batch is gathered
PartsOf(i, what, b) ==
  IF job_parts = 0 \/ what # "predicts" THEN << <<i, what, b, 0>> >>
  ELSE [k \in 1..job_parts |-> <<i, what, b, k>>]

\* the gathers of batches b..nb of one kind, batch by batch
RECURSIVE BatchCalls(_, _, _)
BatchCalls(i, what, b) ==
  IF b > job_data[i] THEN <<>>
  ELSE PartsOf(i, what, b) \o BatchCalls(i, what, b + 1)

\* the all_gather calls the i-th data set takes: in run_eval those of the
\* predictions and then those of the labels; in run_predict one for every
\* batch
DatasetCalls(i) ==
  IF job_mode = "run_eval"
  THEN BatchCalls(i, "predicts", 1) \o BatchCalls(i, "labels", 1)
  ELSE BatchCalls(i, "logits", 1)

\* the all_gather calls of the first n data sets, in order
RECURSIVE CallsThrough(_)
CallsThrough(n) ==
  IF n = 0 THEN <<>> ELSE CallsThrough(n - 1) \o DatasetCalls(n)

\* the data sets a rank gets through: all of them, or those before the first
\* one without a batch
Reachable ==
  LET empties == {i \in 1..Len(job_data) : job_data[i] = 0}
  IN  IF empties = {} THEN Len(job_data)
      ELSE (CHOOSE i \in empties : \A j \in empties : i <= j) - 1

\* every rank has left the runner
JobOver == \A r \in JobRanks : job_pc[r] \in {"returned", "raised"}

\* the calls of every rank are the same calls in the same order, no rank gets
\* past a call another rank has not entered, and a rank leaves the runner only
\* with all of them made by every rank
C11_Calls ==
  JobWorld > 1 =>
    \A r \in JobRanks :
      /\ IsPrefix(job_calls[r], CallsThrough(Reachable))
      /\ \A q \in JobRanks :
           /\ IsPrefix(job_calls[r], job_calls[q])
              \/ IsPrefix(job_calls[q], job_calls[r])
           /\ Len(job_calls[q]) - Len(job_calls[r]) <= 1
      /\ job_pc[r] \in {"returned", "raised"} =>
           \A q \in JobRanks : job_calls[q] = CallsThrough(Reachable)
      /\ job_pc[r] = "returned" => Reachable = Len(job_data)
      /\ job_pc[r] = "raised" => job_idx[r] = Reachable + 1

\* the file of a data set is written by rank 0, after every rank has entered
\* every all_gather of that data set
C11_WritesAfterGathers ==
  JobWorld > 1 =>
    \A f \in job_files :
      /\ f[1] = 0
      /\ \A q \in JobRanks : IsPrefix(CallsThrough(f[2]), job_calls[q])

\* a file is written only while no rank is in an all_gather that another rank
\* has yet to enter
NoWriteBetweenGathers ==
  (JobWorld > 1 /\ job_files' # job_files) =>
    \A q, r \in JobRanks : Len(job_calls[q]) = Len(job_calls[r])

\* C11 as stated: in a job of more than one rank every rank makes the same
\* all_gather calls in the same order, every call is entered by all ranks,
\* every rank eventually leaves the runner, and rank 0 never writes a file
\* between one rank's all_gather and another rank's matching all_gather.
C11_Original ==
  /\ []C11_Calls
  /\ <>JobOver
  /\ [][NoWriteBetweenGathers]_vars

\* C11: in a job of more than one rank every rank makes the same all_gather
\* calls in the same order (per data set the prediction gathers then the label
\* gathers in run_eval, one gather per batch in run_predict), every call is
\* entered by all ranks, every rank eventually leaves the runner, and rank 0
\* writes the file of a data set only after every rank has entered every
\* all_gather of that data set; the other ranks may by then wait in the first
\* all_gather of the next data set.
C11_Gathers ==
  /\ [](C11_Calls /\ C11_WritesAfterGathers)
  /\ <>JobOver

\* rank 0 is about to write the file of the first of two data sets, all of
\* whose gathers every rank has entered, while rank 1 waits in the first
\* all_gather of the second
C11_Witness ==
  /\ job_mode = "run_eval"
  /\ JobWorld = 2
  /\ job_data = <<1, 2>>
  /\ job_pc[0] = "gather"
  /\ job_todo[0] = <<>>
  /\ job_idx[0] = 1
  /\ job_parts = 0
  /\ job_calls[0] = << <<1, "predicts", 1, 0>>, <<1, "labels", 1, 0>> >>
  /\ job_calls[1] = job_calls[0] \o << <<2, "predicts", 1, 0>> >>

====
